---- MODULE Spec2Model ----
(***************************************************************************)
(* Game of Life core of src/main.py: the State container (a flat bitarray  *)
(* indexed by x*size+y), the neighbour count, the Conway rule, and the     *)
(* World that steps one generation at a time.                              *)
(*                                                                         *)
(* State objects live in a heap and are referred to by identity, so that   *)
(* "the same object" and "a copy" are different things in the model as     *)
(* they are in Python.                                                     *)
(***************************************************************************)
EXTENDS Integers, Sequences, FiniteSets, TLC

\* ---------------------------------------------------------------- bounds
MaxSize == 5       \* largest world side the stepping specification explores
MaxLive == 4       \* most live cells in a caller-built initial grid
MaxSteps == 2      \* most calls of evolve_next_generation in one behaviour
GridMax == 3       \* largest side of a State called directly
MaxFlips == 4      \* most cells differing from a uniform State called directly
AppMaxSize == 2    \* largest world side of the application specification
FileMaxSize == 9   \* largest side of a State constructed from a file directly
WorldMax == 3      \* largest side of a World given a State of any side

\* MAX_WORLD_SIZE of the source; no code reads it.
MAX_WORLD_SIZE == 100

\* Byte values found in the initial configuration file.
ByteVals == {0, 1, 255}

\* Python's None, as an object reference: no heap object has identity 0.
None == 0

VARIABLES
    heap,            \* sequence of State objects [size, data]; identity = index
    world_size,      \* World.world_size
    current_state,   \* World.current_state: identity of a State, or None
    previous_state,  \* World.previous_state: identity of a State, or None
    pc,              \* where the program is: "ready", "grid", "queried",
                     \* "built", "started", "failed", "new", "made"
    gen,             \* number of completed evolve_next_generation calls
    file,            \* bytes of initial_config/config1
    result           \* outcome of the last direct call on a State

vars == <<heap, world_size, current_state, previous_state, pc, gen, file, result>>

\* ------------------------------------------------------------- bitarray
\* A bitarray is a sequence of BOOLEAN; position i of Python is i+1 here.

\* Python index normalisation: a negative index counts from the end.
bitarray_index(a, i) == IF i < 0 THEN i + Len(a) ELSE i

\* a[i]: the item, or IndexError when the normalised index is out of range.
bitarray_getitem(a, i) ==
    LET k == bitarray_index(a, i)
    IN  IF k < 0 \/ k >= Len(a)
        THEN [err |-> "IndexError", val |-> FALSE]
        ELSE [err |-> "", val |-> a[k + 1]]

\* a[i] = v: the updated array, or IndexError and the array untouched.
bitarray_setitem(a, i, v) ==
    LET k == bitarray_index(a, i)
    IN  IF k < 0 \/ k >= Len(a)
        THEN [err |-> "IndexError", val |-> a]
        ELSE [err |-> "", val |-> [a EXCEPT ![k + 1] = v]]

\* The 8 bits of one byte as bitarray.fromfile appends them: the bitarray is
\* created with the default endianness, which is big-endian, so the most
\* significant bit comes first.
byte_bits(b) == [k \in 1..8 |-> ((b \div (2 ^ (8 - k))) % 2) = 1]

RECURSIVE bytes_bits(_)
bytes_bits(bs) ==
    IF bs = <<>> THEN <<>> ELSE byte_bits(Head(bs)) \o bytes_bits(Tail(bs))

\* f.read(n) of a file holding the bytes bs.
read_bytes(bs, n) == SubSeq(bs, 1, IF n < Len(bs) THEN n ELSE Len(bs))

\* ---------------------------------------------------------------- State
\* State(size) without a file: size**2 bits, all cleared by setall(False).
State(size) == [size |-> size, data |-> [i \in 1..(size * size) |-> FALSE]]

\* State(size, file): bitarray(size**2) leaves its size**2 bits
\* uninitialised (junk is what the allocation happened to hold), then
\* fromfile(f, size) APPENDS the bits of up to size bytes and raises
\* EOFError when the file holds fewer than size bytes.
State_from_file(size, bs, junk) ==
    [err   |-> IF Len(bs) < size THEN "EOFError" ELSE "",
     state |-> [size |-> size, data |-> junk \o bytes_bits(read_bytes(bs, size))]]

\* self[x, y]
getitem(g, x, y) == bitarray_getitem(g.data, x * g.size + y)

\* The assignment with the two keys exchanged in the index.
setitem_transposed(g, x, y, value) ==
    LET r == bitarray_setitem(g.data, y * g.size + x, value)
    IN  [err |-> r.err, val |-> [g EXCEPT !.data = r.val]]

\* self[x, y] = value
setitem(g, x, y, value) ==
    LET r == bitarray_setitem(g.data, x * g.size + y, value)
    IN  [err |-> r.err, val |-> [g EXCEPT !.data = r.val]]

\* 1 when the cell is alive, as "if self[x, y]: live_neighbours += 1" adds it.
alive(g, x, y) == IF getitem(g, x, y).val THEN 1 ELSE 0

\* The count with the upper guards written against size instead of size - 1.
total_alive_neighbours_upto_size(g, x, y) ==
    LET max_index == g.size
    IN    (IF x > 0 /\ y > 0                 THEN alive(g, x - 1, y - 1) ELSE 0)
        + (IF y > 0                          THEN alive(g, x,     y - 1) ELSE 0)
        + (IF x < max_index /\ y > 0         THEN alive(g, x + 1, y - 1) ELSE 0)
        + (IF x > 0                          THEN alive(g, x - 1, y)     ELSE 0)
        + (IF x < max_index                  THEN alive(g, x + 1, y)     ELSE 0)
        + (IF x > 0 /\ y < max_index         THEN alive(g, x - 1, y + 1) ELSE 0)
        + (IF y < max_index                  THEN alive(g, x,     y + 1) ELSE 0)
        + (IF x < max_index /\ y < max_index THEN alive(g, x + 1, y + 1) ELSE 0)

\* The eight guarded reads, in source order; a read happens only when its
\* guard passes.
total_alive_neighbours(g, x, y) ==
    LET max_index == g.size - 1
    IN    (IF x > 0 /\ y > 0                 THEN alive(g, x - 1, y - 1) ELSE 0)
        + (IF y > 0                          THEN alive(g, x,     y - 1) ELSE 0)
        + (IF x < max_index /\ y > 0         THEN alive(g, x + 1, y - 1) ELSE 0)
        + (IF x > 0                          THEN alive(g, x - 1, y)     ELSE 0)
        + (IF x < max_index                  THEN alive(g, x + 1, y)     ELSE 0)
        + (IF x > 0 /\ y < max_index         THEN alive(g, x - 1, y + 1) ELSE 0)
        + (IF y < max_index                  THEN alive(g, x,     y + 1) ELSE 0)
        + (IF x < max_index /\ y < max_index THEN alive(g, x + 1, y + 1) ELSE 0)

\* The coordinates total_alive_neighbours reads: those whose guard passes.
neighbour_reads(g, x, y) ==
    LET max_index == g.size - 1
    IN  (IF x > 0 /\ y > 0                 THEN {<<x - 1, y - 1>>} ELSE {})
   \cup (IF y > 0                          THEN {<<x,     y - 1>>} ELSE {})
   \cup (IF x < max_index /\ y > 0         THEN {<<x + 1, y - 1>>} ELSE {})
   \cup (IF x > 0                          THEN {<<x - 1, y>>}     ELSE {})
   \cup (IF x < max_index                  THEN {<<x + 1, y>>}     ELSE {})
   \cup (IF x > 0 /\ y < max_index         THEN {<<x - 1, y + 1>>} ELSE {})
   \cup (IF y < max_index                  THEN {<<x,     y + 1>>} ELSE {})
   \cup (IF x < max_index /\ y < max_index THEN {<<x + 1, y + 1>>} ELSE {})

\* ----------------------------------------------------------------- rule
\* The rule without reproduction: three neighbours only keep a cell as it is.
default_rules_no_birth(number_of_neighbours, cur) ==
    IF number_of_neighbours > 3 THEN FALSE
    ELSE IF number_of_neighbours = 3 THEN cur
    ELSE IF number_of_neighbours < 2 THEN FALSE
    ELSE cur

\* The rule with overpopulation starting at three neighbours.
default_rules_crowded_at_3(number_of_neighbours, cur) ==
    IF number_of_neighbours >= 3 THEN FALSE
    ELSE IF number_of_neighbours = 3 THEN TRUE
    ELSE IF number_of_neighbours < 2 THEN FALSE
    ELSE cur

\* The rule with underpopulation reaching two neighbours.
default_rules_lonely_at_2(number_of_neighbours, cur) ==
    IF number_of_neighbours > 3 THEN FALSE
    ELSE IF number_of_neighbours = 3 THEN TRUE
    ELSE IF number_of_neighbours <= 2 THEN FALSE
    ELSE cur

default_rules(number_of_neighbours, cur) ==
    IF number_of_neighbours > 3 THEN FALSE
    ELSE IF number_of_neighbours = 3 THEN TRUE
    ELSE IF number_of_neighbours < 2 THEN FALSE
    ELSE cur

\* ------------------------------------------------------- apply_rule_set
\* The double loop of apply_rule_set from flat position k on: cell (i, j)
\* of next_state is written from a count and a value READ FROM self AT THAT
\* MOMENT. self and next_state are identities: when they are the same
\* object, the reads see the cells already written.
\* The scan with the inner index running with the outer one.
scan_coord_diagonal(size, k) == <<k \div size, k \div size>>

\* The (i, j) of the k-th turn (from 0) of "for i in range(size): for j in
\* range(size)".
scan_coord(size, k) == <<k \div size, k % size>>

RECURSIVE rule_loop(_, _, _, _)
rule_loop(h, self, next_state, k) ==
    LET size == h[self].size
    IN  IF k >= size * size THEN h
        ELSE LET i == scan_coord(size, k)[1]
                 j == scan_coord(size, k)[2]
                 v == default_rules(total_alive_neighbours(h[self], i, j),
                                    getitem(h[self], i, j).val)
             IN  rule_loop([h EXCEPT ![next_state] = setitem(h[next_state], i, j, v).val],
                           self, next_state, k + 1)

\* apply_rule_set ignoring inplace_state: a new State on every call.
apply_rule_set_fresh(h, self, inplace_state) ==
    [heap |-> rule_loop(Append(h, State(h[self].size)), self, Len(h) + 1, 0),
     ret  |-> Len(h) + 1]

\* apply_rule_set writing a copy of self and returning the copy in place of
\* inplace_state: every cell computed from the untouched self.
apply_rule_set_from_copy(h, self, inplace_state) ==
    LET h1 == rule_loop(Append(h, h[self]), self, Len(h) + 1, 0)
    IN  [heap |-> [h EXCEPT ![inplace_state] = h1[Len(h) + 1]], ret |-> inplace_state]

\* self.apply_rule_set(default_rules, inplace_state): the heap afterwards and
\* the identity returned.
apply_rule_set(h, self, inplace_state) ==
    LET h1 == IF inplace_state # None THEN h ELSE Append(h, State(h[self].size))
        next_state == IF inplace_state # None THEN inplace_state ELSE Len(h) + 1
    IN  [heap |-> rule_loop(h1, self, next_state, 0), ret |-> next_state]

\* ---------------------------------------------------------------- World
NoResult == [op |-> "", x |-> 0, y |-> 0, n |-> 0, s |-> FALSE,
             err |-> "", val |-> FALSE, num |-> 0, reads |-> {}]

\* Subsets of at most k elements of the set C.
RECURSIVE LiveSets(_, _)
LiveSets(C, k) ==
    IF k = 0 THEN {{}}
    ELSE LET P == LiveSets(C, k - 1)
         IN  P \cup {S \cup {c} : S \in P, c \in C}

\* Flat positions (1-based) of the cell (a, b) and of its neighbours in the
\* grid of side n.
Neighbourhood(n, a, b) ==
    {x * n + y + 1 : x \in ((a - 1)..(a + 1)) \cap (0..(n - 1)),
                     y \in ((b - 1)..(b + 1)) \cap (0..(n - 1))}

\* A State of side n whose live cells are those at the flat positions L: what
\* State(n) followed by state[x, y] = True for each of them leaves.
Grid(n, L) == [size |-> n, data |-> [i \in 1..(n * n) |-> i \in L]]

\* World(world_size, state) with a state the caller filled cell by cell: at
\* most MaxLive live cells, all in the neighbourhood of one cell.
Init ==
    \E n \in 1..MaxSize :
      \E a \in 0..(n - 1), b \in 0..(n - 1) :
        \E L \in LiveSets(Neighbourhood(n, a, b), MaxLive) :
          /\ heap = << Grid(n, L) >>
          /\ world_size = n
          /\ current_state = 1
          /\ previous_state = None
          /\ pc = "ready"
          /\ gen = 0
          /\ file = <<>>
          /\ result = NoResult

evolve_next_generation ==
    /\ gen < MaxSteps
    /\ IF current_state # None
       THEN \E prev \in {current_state} :
              \E r \in {apply_rule_set(heap, prev, current_state)} :
                /\ previous_state' = prev
                /\ heap' = r.heap
                /\ current_state' = r.ret
       ELSE /\ heap' = Append(heap, State(world_size))
            /\ current_state' = Len(heap) + 1
            /\ UNCHANGED previous_state
    /\ gen' = gen + 1
    /\ UNCHANGED <<world_size, pc, file, result>>

\* One tick on a World the caller constructed.
step ==
    /\ pc = "ready"
    /\ evolve_next_generation

Next == step

Spec == Init /\ [][Next]_vars

\* World(world_size, state): no state given, or a State of any side the
\* caller built; nothing compares its size with world_size.
InitWorld ==
    \E n \in 1..WorldMax :
      \/ /\ heap = << State(n) >>
         /\ world_size = n
         /\ current_state = 1
         /\ previous_state = None
         /\ pc = "ready"
         /\ gen = 0
         /\ file = <<>>
         /\ result = NoResult
      \/ \E m \in 1..WorldMax :
           \E a \in 0..(m - 1), b \in 0..(m - 1) :
             \E L \in LiveSets(Neighbourhood(m, a, b), MaxLive) :
               /\ heap = << Grid(m, L) >>
               /\ world_size = n
               /\ current_state = 1
               /\ previous_state = None
               /\ pc = "ready"
               /\ gen = 0
               /\ file = <<>>
               /\ result = NoResult

SpecWorld == InitWorld /\ [][Next]_vars

\* ------------------------------------------------- direct calls on a State
\* A State of side n that differs from a uniform one in at most MaxFlips
\* cells, built by State(n) and cell assignments.
InitGrid ==
    \E n \in 1..GridMax :
      \E bg \in BOOLEAN :
        \E F \in LiveSets(1..(n * n), MaxFlips) :
          /\ heap = << [size |-> n, data |-> [i \in 1..(n * n) |-> (i \in F) # bg]] >>
          /\ world_size = n
          /\ current_state = None
          /\ previous_state = None
          /\ pc = "grid"
          /\ gen = 0
          /\ file = <<>>
          /\ result = NoResult

\* state[x, y], for coordinates in and just outside the grid.
call_getitem ==
    /\ pc = "grid"
    /\ \E x \in -1..heap[1].size, y \in -1..heap[1].size :
         LET r == getitem(heap[1], x, y)
         IN  result' = [NoResult EXCEPT !.op = "get", !.x = x, !.y = y,
                                        !.err = r.err, !.val = r.val]
    /\ pc' = "queried"
    /\ UNCHANGED <<heap, world_size, current_state, previous_state, gen, file>>

\* state.total_alive_neighbours(x, y), for coordinates in the grid.
call_total_alive_neighbours ==
    /\ pc = "grid"
    /\ \E x \in 0..(heap[1].size - 1), y \in 0..(heap[1].size - 1) :
         result' = [NoResult EXCEPT !.op = "count", !.x = x, !.y = y,
                        !.num = total_alive_neighbours(heap[1], x, y),
                        !.reads = neighbour_reads(heap[1], x, y)]
    /\ pc' = "queried"
    /\ UNCHANGED <<heap, world_size, current_state, previous_state, gen, file>>

\* default_rules(n, s)
call_default_rules ==
    /\ pc = "grid"
    /\ \E n \in 0..8, s \in BOOLEAN :
         result' = [NoResult EXCEPT !.op = "rule", !.n = n, !.s = s,
                                    !.val = default_rules(n, s)]
    /\ pc' = "queried"
    /\ UNCHANGED <<heap, world_size, current_state, previous_state, gen, file>>

\* state[x, y] = v, for coordinates in the grid.
call_setitem ==
    /\ pc = "grid"
    /\ \E x \in 0..(heap[1].size - 1), y \in 0..(heap[1].size - 1), v \in BOOLEAN :
         \E r \in {setitem(heap[1], x, y, v)} :
           /\ heap' = [heap EXCEPT ![1] = r.val]
           /\ result' = [NoResult EXCEPT !.op = "set", !.x = x, !.y = y,
                                          !.s = v, !.err = r.err]
    /\ pc' = "queried"
    /\ UNCHANGED <<world_size, current_state, previous_state, gen, file>>

NextGrid ==
    \/ call_getitem
    \/ call_setitem
    \/ call_total_alive_neighbours
    \/ call_default_rules

SpecGrid == InitGrid /\ [][NextGrid]_vars

\* ---------------------------------------------------------- GameOfLife
\* Sequences over S of length at most n.
RECURSIVE SeqsUpTo(_, _)
SeqsUpTo(S, n) ==
    IF n = 0 THEN {<<>>}
    ELSE LET P == SeqsUpTo(S, n - 1)
         IN  P \cup {Append(q, b) : q \in P, b \in S}

\* GameOfLife.build: World(self.world_size), next to whatever the
\* configuration file holds.
InitApp ==
    \E n \in 1..AppMaxSize :
      \E bs \in SeqsUpTo(ByteVals, n + 1) :
        /\ heap = << State(n) >>
        /\ world_size = n
        /\ current_state = 1
        /\ previous_state = None
        /\ pc = "built"
        /\ gen = 0
        /\ file = bs
        /\ result = NoResult

\* GameOfLife.setup, called once by on_start: a State read from the file
\* replaces the World's current_state; an exception leaves the World as it
\* was and the clock is never scheduled.
setup ==
    /\ pc = "built"
    /\ \E junk \in [1..(world_size * world_size) -> BOOLEAN] :
         LET r == State_from_file(world_size, file, junk)
         IN  IF r.err # ""
             THEN /\ pc' = "failed"
                  /\ result' = [NoResult EXCEPT !.op = "State", !.err = r.err]
                  /\ UNCHANGED <<heap, current_state>>
             ELSE /\ pc' = "started"
                  /\ result' = [NoResult EXCEPT !.op = "State"]
                  /\ heap' = Append(heap, r.state)
                  /\ current_state' = Len(heap) + 1
    /\ UNCHANGED <<world_size, previous_state, gen, file>>

\* GameOfLife.update, scheduled by on_start after setup.
update ==
    /\ pc = "started"
    /\ evolve_next_generation

NextApp ==
    \/ setup
    \/ update

SpecApp == InitApp /\ [][NextApp]_vars

\* ------------------------------------------------------ State constructors
\* A file of len equal bytes.
UniformFile(len, b) == [i \in 1..len |-> b]

\* What bitarray(n * n) may hold, cut down to the two uniform fills: whether
\* the constructor raises and how many bits it holds do not depend on it.
UniformJunk(n) == {[i \in 1..(n * n) |-> b] : b \in BOOLEAN}

\* Sizes passed to State(size): around zero, and around MAX_WORLD_SIZE.
SizeArgs == {-1, 0, 1, 2, MAX_WORLD_SIZE, MAX_WORLD_SIZE + 1}

\* No State yet, and a configuration file of some length.
InitNew ==
    \E len \in 0..(FileMaxSize + 1), b \in ByteVals :
        /\ heap = <<>>
        /\ world_size = 0
        /\ current_state = None
        /\ previous_state = None
        /\ pc = "new"
        /\ gen = 0
        /\ file = UniformFile(len, b)
        /\ result = NoResult

\* State(size): no check of size; the new object joins the heap.
call_State ==
    /\ pc = "new"
    /\ \E size \in SizeArgs :
         /\ world_size' = size
         /\ heap' = Append(heap, State(size))
         /\ result' = [NoResult EXCEPT !.op = "new"]
    /\ pc' = "made"
    /\ UNCHANGED <<current_state, previous_state, gen, file>>

\* State(size, file): the object exists only when fromfile did not raise.
call_State_file ==
    /\ pc = "new"
    /\ \E size \in 1..FileMaxSize :
         \E junk \in UniformJunk(size) :
           \E r \in {State_from_file(size, file, junk)} :
             /\ world_size' = size
             /\ heap' = IF r.err = "" THEN Append(heap, r.state) ELSE heap
             /\ result' = [NoResult EXCEPT !.op = "load", !.err = r.err]
    /\ pc' = "made"
    /\ UNCHANGED <<current_state, previous_state, gen, file>>

NextNew ==
    \/ call_State
    \/ call_State_file

SpecNew == InitNew /\ [][NextNew]_vars


\* ===================================================================
\* Reference notions the properties are stated with.

\* (x, y) is a coordinate of a grid of side n.
InGrid(n, x, y) == x \in 0..(n - 1) /\ y \in 0..(n - 1)

\* The Moore neighbourhood of (x, y) cut to the grid of side n: no wrap.
MooreTargets(n, x, y) ==
    {t \in {<<x + dx, y + dy>> : dx \in -1..1, dy \in -1..1} :
        t # <<x, y>> /\ InGrid(n, t[1], t[2])}

\* Value of the in-range cell (x, y), by the row-major index formula.
CellOf(g, x, y) == g.data[x * g.size + y + 1]

MooreCount(g, x, y) ==
    Cardinality({t \in MooreTargets(g.size, x, y) : CellOf(g, t[1], t[2])})

OnBorder(n, c) == c = 0 \/ c = n - 1
IsCorner(n, x, y) == OnBorder(n, x) /\ OnBorder(n, y)
IsInterior(n, x, y) == ~OnBorder(n, x) /\ ~OnBorder(n, y)

\* The synchronous Conway step of a grid: every cell from the same grid.
SyncCell(g, x, y) ==
    LET n == MooreCount(g, x, y)
    IN  n = 3 \/ (n = 2 /\ CellOf(g, x, y))

\* The live coordinates of the first size*size cells of a grid.
LiveCells(g) ==
    {c \in (0..(g.size - 1)) \X (0..(g.size - 1)) : CellOf(g, c[1], c[2])}

\* The transition just taken is a call of evolve_next_generation on a World
\* whose current_state is a State.
Stepped == gen' = gen + 1 /\ current_state # None /\ current_state' # None

Cur == heap[current_state]

\* -------------------------------------------------------------------
\* C1: after one step, every cell (x, y) of the current grid equals the
\* rule applied to the live-neighbour count and the value of (x, y) in the
\* PRE-step grid; no cell sees a value written during the same step.
C1_StepReadsPreStepGrid ==
    [][Stepped =>
        \A x \in 0..(Cur.size - 1), y \in 0..(Cur.size - 1) :
            getitem(heap'[current_state'], x, y).val
                = default_rules(total_alive_neighbours(Cur, x, y),
                                getitem(Cur, x, y).val)]_vars

\* -------------------------------------------------------------------
\* C2 (as stated): total_alive_neighbours(x, y) is the number of live cells
\* among exactly the Moore offsets that fall inside the grid, is in 0..8,
\* and ranges over 8 candidates for an interior cell, 5 for an edge cell and
\* 3 for a corner cell, for every grid of side >= 1.
C2_CountAsStated ==
    result.op = "count" =>
        LET g == heap[1]
            x == result.x
            y == result.y
        IN  /\ result.reads = MooreTargets(g.size, x, y)
            /\ result.num = MooreCount(g, x, y)
            /\ result.num \in 0..8
            /\ Cardinality(result.reads) =
                  IF IsInterior(g.size, x, y) THEN 8
                  ELSE IF IsCorner(g.size, x, y) THEN 3
                  ELSE 5

\* C2 (amended): the same, with 3 candidates for a corner cell of a grid of
\* side >= 2; the single cell of a grid of side 1 has no candidate at all
\* and its count is 0.
C2_CountAmended ==
    result.op = "count" =>
        LET g == heap[1]
            x == result.x
            y == result.y
        IN  /\ result.reads = MooreTargets(g.size, x, y)
            /\ <<x, y>> \notin result.reads
            /\ result.reads \subseteq (0..(g.size - 1)) \X (0..(g.size - 1))
            /\ result.num = MooreCount(g, x, y)
            /\ result.num \in 0..8
            /\ Cardinality(result.reads) =
                  IF g.size = 1 THEN 0
                  ELSE IF IsInterior(g.size, x, y) THEN 8
                  ELSE IF IsCorner(g.size, x, y) THEN 3
                  ELSE 5
            /\ g.size = 1 => result.num = 0

\* An interior cell whose eight neighbours are all alive has been counted.
C2_Witness ==
    /\ result.op = "count"
    /\ IsInterior(heap[1].size, result.x, result.y)
    /\ result.num = 8

\* -------------------------------------------------------------------
\* C3: default_rules(n, s) is dead for n > 3, alive for n = 3 whatever s,
\* dead for n < 2, and s for n = 2.
C3_DefaultRules ==
    result.op = "rule" =>
        /\ result.n > 3 => result.val = FALSE
        /\ result.n = 3 => result.val = TRUE
        /\ result.n < 2 => result.val = FALSE
        /\ result.n = 2 => result.val = result.s

\* A dead cell with three neighbours has been put to the rule: it is born.
C3_Witness ==
    /\ result.op = "rule"
    /\ result.n = 3
    /\ result.s = FALSE
    /\ result.val = TRUE

\* -------------------------------------------------------------------
RowBlinker == {<<1, 2>>, <<2, 2>>, <<3, 2>>}
ColBlinker == {<<2, 1>>, <<2, 2>>, <<2, 3>>}

\* C4: on a grid of side >= 5 holding only the row blinker, one step gives
\* exactly the column blinker, and a step from the column blinker gives
\* exactly the row blinker again.
C4_BlinkerOscillates ==
    [][(Stepped /\ Cur.size >= 5) =>
        /\ LiveCells(Cur) = RowBlinker => LiveCells(heap'[current_state']) = ColBlinker
        /\ LiveCells(Cur) = ColBlinker => LiveCells(heap'[current_state']) = RowBlinker]_vars

\* -------------------------------------------------------------------
\* The 2x2 block whose least corner is (a, b).
Block(a, b) == {<<a, b>>, <<a + 1, b>>, <<a, b + 1>>, <<a + 1, b + 1>>}

IsBlock(g) ==
    \E L \in {LiveCells(g)} :
        /\ Cardinality(L) = 4
        /\ \E c \in L : c[1] < g.size - 1 /\ c[2] < g.size - 1 /\ L = Block(c[1], c[2])

\* C5: on a grid of side >= 4 whose only live cells are a 2x2 block, placed
\* anywhere, one step leaves every cell as it was.
C5_BlockIsStill ==
    [][(Stepped /\ Cur.size >= 4 /\ IsBlock(Cur)) =>
        /\ heap'[current_state'].size = Cur.size
        /\ LiveCells(heap'[current_state']) = LiveCells(Cur)]_vars

\* A step has been taken and the grid holds the block in the corner (0, 0).
C5_Witness ==
    /\ gen >= 1
    /\ current_state # None
    /\ Cur.size >= 4
    /\ LiveCells(Cur) = Block(0, 0)

\* -------------------------------------------------------------------
\* C6: a cell that is dead and has exactly 3 live neighbours in the
\* pre-step grid is alive in the current grid after one step.
C6_Birth ==
    [][Stepped =>
        \A x \in 0..(Cur.size - 1), y \in 0..(Cur.size - 1) :
            (~CellOf(Cur, x, y) /\ MooreCount(Cur, x, y) = 3)
                => getitem(heap'[current_state'], x, y).val = TRUE]_vars

\* -------------------------------------------------------------------
\* C7: reading a cell with a coordinate outside [0, size) ends in an error;
\* it never returns a value.
C7_OutOfRangeGetFails ==
    (result.op = "get" /\ ~InGrid(heap[1].size, result.x, result.y))
        => result.err # ""

\* -------------------------------------------------------------------
\* C8: the World never owns more than 2 State objects in all, and a step
\* allocates none: the objects it holds afterwards are objects it held
\* before.
C8_NoAllocationGrowth ==
    /\ [](Len(heap) <= 2)
    /\ [][gen' = gen + 1 =>
            /\ Len(heap') = Len(heap)
            /\ ({current_state', previous_state'} \ {None})
                   \subseteq {current_state, previous_state}]_vars

\* The application has loaded its configuration and stepped as often as the
\* bound allows, with the two State objects it ever made.
C8_Witness ==
    /\ pc = "started"
    /\ gen = MaxSteps
    /\ Len(heap) = 2

\* -------------------------------------------------------------------
\* C9: a step exchanges two distinct buffers: the old current is the new
\* previous, the old previous is the new current, and the two are never
\* the same object.
C9_StepSwapsBuffers ==
    [][Stepped =>
        /\ previous_state' = current_state
        /\ current_state' = previous_state
        /\ current_state' # previous_state']_vars

\* -------------------------------------------------------------------
\* Bit k of a byte sequence, least-significant bit first within each byte.
SnapshotBit(bs, k) == ((bs[(k \div 8) + 1] \div (2 ^ (k % 8))) % 2) = 1

\* C10: a State built from a snapshot has exactly size*size cells and cell
\* (x, y) is bit x*size+y of the snapshot, least-significant bit first.
C10_SnapshotCells ==
    (pc = "started" /\ gen = 0) =>
        /\ Len(Cur.data) = Cur.size * Cur.size
        /\ \A x \in 0..(Cur.size - 1), y \in 0..(Cur.size - 1) :
               getitem(Cur, x, y).val = SnapshotBit(file, x * Cur.size + y)

\* -------------------------------------------------------------------
\* C11: constructing a State of side size from a file with fewer than
\* size*size bits ends in an error and yields no State; in particular a
\* file of only size bytes is rejected when 8*size < size*size.
C11_ShortSnapshotRejected ==
    (result.op = "load" /\ 8 * Len(file) < world_size * world_size)
        => (result.err # "" /\ heap = <<>>)

\* -------------------------------------------------------------------
\* C12: State(size) with size <= 0 or size > MAX_WORLD_SIZE ends in an
\* error and yields no State; every State constructed has
\* 1 <= size <= MAX_WORLD_SIZE.
C12_InvalidSizeRejected ==
    result.op = "new" =>
        /\ (world_size <= 0 \/ world_size > MAX_WORLD_SIZE)
              => (result.err # "" /\ heap = <<>>)
        /\ \A i \in 1..Len(heap) : heap[i].size \in 1..MAX_WORLD_SIZE

\* -------------------------------------------------------------------
\* C13: every State the World holds, as current or previous, has size equal
\* to world_size; a World is never constructed around a State of another
\* size.
C13_HeldSizesEqualWorldSize ==
    pc = "ready" =>
        \A id \in {current_state, previous_state} \ {None} :
            heap[id].size = world_size

RECURSIVE InPlaceScan(_, _)
InPlaceScan(g, k) ==
    IF k >= g.size * g.size THEN g
    ELSE InPlaceScan(
            [g EXCEPT !.data[k + 1] = SyncCell(g, k \div g.size, k % g.size)],
            k + 1)

\* C15: a step on a World with a current State is exactly the sequential
\* in-place row-major scan of that one State; afterwards previous_state and
\* current_state are both the object that was current before.
C15_StepIsInPlaceScan ==
    [][Stepped =>
        /\ current_state' = current_state
        /\ previous_state' = current_state
        /\ Len(heap') = Len(heap)
        /\ heap'[current_state'] = InPlaceScan(Cur, 0)]_vars

\* A step has been taken: current and previous are one object, and some
\* cell is alive after the scan.
C15_Witness ==
    /\ gen >= 1
    /\ current_state # None
    /\ previous_state = current_state
    /\ LiveCells(Cur) # {}

\* -------------------------------------------------------------------
\* Every cell already has the value the synchronous Conway step gives it.
IsFixedPoint(g) ==
    \A x \in 0..(g.size - 1), y \in 0..(g.size - 1) :
        SyncCell(g, x, y) = CellOf(g, x, y)

\* C16: a grid that is a fixed point of the synchronous Conway step is left
\* unchanged by a step (and so by every further step).
C16_FixedPointsStay ==
    [][(Stepped /\ IsFixedPoint(Cur)) => heap'[current_state'] = Cur]_vars

Tub == {<<0, 1>>, <<1, 0>>, <<1, 2>>, <<2, 1>>}

\* The bound's worth of steps has been taken and the grid holds the tub, a
\* fixed point whose live cells have two neighbours each.
C16_Witness ==
    /\ gen = MaxSteps
    /\ current_state # None
    /\ LiveCells(Cur) = Tub
    /\ IsFixedPoint(Cur)

\* -------------------------------------------------------------------
\* C17: state[x, y] = v with (x, y) in the grid makes state[x, y] return v,
\* leaves every other in-range cell and the size as they were.
C17_SetitemFrame ==
    [][result'.op = "set" =>
        /\ result'.err = ""
        /\ heap'[1].size = heap[1].size
        /\ Len(heap'[1].data) = Len(heap[1].data)
        /\ \A x \in 0..(heap[1].size - 1), y \in 0..(heap[1].size - 1) :
             getitem(heap'[1], x, y).val =
                 IF <<x, y>> = <<result'.x, result'.y>>
                 THEN result'.s
                 ELSE getitem(heap[1], x, y).val]_vars

\* A cell off the diagonal has been set alive and reads back alive, next to
\* a dead cell.
C17_Witness ==
    /\ result.op = "set"
    /\ result.x # result.y
    /\ result.s = TRUE
    /\ getitem(heap[1], result.x, result.y).val = TRUE
    /\ getitem(heap[1], result.y, result.x).val = FALSE

====
